---- MODULE Spec2Model ----
(***************************************************************************)
(* Model of pathfinder's sequencer error translation                       *)
(* (crates/pathfinder/src/sequencer/error.rs) and of the JSON-RPC v0.2     *)
(* method add_deploy_transaction                                           *)
(* (crates/pathfinder/src/rpc/v02/method/add_deploy_transaction.rs).       *)
(*                                                                         *)
(* Strings that the code inspects (StarknetError::message) are sequences   *)
(* of one-character strings, so that str::contains is a real substring     *)
(* search.                                                                 *)
(***************************************************************************)
EXTENDS Integers, Sequences, FiniteSets

VARIABLES
    seqErr,         \* translator: the SequencerError handed to From::from
    rpcError,       \* translator: the jsonrpsee Error it returned
    specificCodes,  \* translator: codes that have produced a specific RpcErrorCode
    pc,             \* method: position of the add_deploy_transaction future
    input,          \* method: the AddDeployTransactionInput of the invocation
    upstreamCalls,  \* method: arguments of every sequencer.add_deploy_transaction call
    outcome,        \* method: what the awaited upstream call returned
    result          \* method: the Result the method returned

translatorVars == <<seqErr, rpcError, specificCodes>>
methodVars == <<pc, input, upstreamCalls, outcome, result>>
vars == <<seqErr, rpcError, specificCodes, pc, input, upstreamCalls, outcome, result>>

----------------------------------------------------------------------------
\* Bounds of the model.

\* Message texts are concatenations of at most MaxFrags fragments.
MaxFrags == 2
\* Where the text is one dimension among several (the census of codes, the
\* upstream errors of the method), it has at most MaxShortFrags fragments.
MaxShortFrags == 1
\* Field elements (versions, salts, calldata, hashes, addresses) range over 0..MaxFelt.
MaxFelt == 1
\* constructor_calldata has at most MaxCalldata elements.
MaxCalldata == 1
\* reqwest errors are numbered 0..MaxTransport.
MaxTransport == 0

----------------------------------------------------------------------------
\* Texts.

BlockHash == <<"B","l","o","c","k"," ","h","a","s","h">>
BlockNumber == <<"B","l","o","c","k"," ","n","u","m","b","e","r">>

\* Pieces the sequencer's free-text message is made of.
Fragments ==
    { BlockHash,
      BlockNumber,
      <<"B","l","o","c","k"," ">>,
      <<"h","a","s","h">> }

\* str::contains(needle): needle occurs at some offset of text.
containsAtStartOnly(text, needle) ==
    /\ Len(needle) <= Len(text)
    /\ SubSeq(text, 1, Len(needle)) = needle

contains(text, needle) ==
    \E i \in 0..(Len(text) - Len(needle)) :
        SubSeq(text, i + 1, i + Len(needle)) = needle

RECURSIVE Concat(_)
Concat(fs) == IF fs = <<>> THEN <<>> ELSE Head(fs) \o Concat(Tail(fs))

MessagesUpTo(n) ==
    { Concat(fs) : fs \in UNION { [1..k -> Fragments] : k \in 0..n } }

Messages == MessagesUpTo(MaxFrags)
ExtendableMessages == MessagesUpTo(MaxFrags - 1)
ShortMessages == MessagesUpTo(MaxShortFrags)
ExtendableShortMessages == MessagesUpTo(MaxShortFrags - 1)

----------------------------------------------------------------------------
\* sequencer::error

StarknetErrorCode ==
    { "BlockNotFound", "EntryPointNotFound", "OutOfRangeContractAddress",
      "SchemaValidationError", "TransactionFailed", "UninitializedContract",
      "OutOfRangeBlockHash", "OutOfRangeTransactionHash", "MalformedRequest",
      "UnsupportedSelectorForFee", "InvalidContractDefinition",
      "NotPermittedContract", "UndeclaredClass", "TransactionLimitExceeded",
      "InvalidTransactionNonce", "OutOfRangeFee", "InvalidTransactionVersion",
      "InvalidProgram" }

\* SequencerError, one record shape for its three variants.
StarknetError(code, message) ==
    [tag |-> "StarknetError", code |-> code, message |-> message, transport |-> 0]

ReqwestError(r) ==
    [tag |-> "ReqwestError", code |-> "-", message |-> <<>>, transport |-> r]

InvalidStarknetErrorVariant ==
    [tag |-> "InvalidStarknetErrorVariant", code |-> "-", message |-> <<>>, transport |-> 0]

NoSequencerError ==
    [tag |-> "None", code |-> "-", message |-> <<>>, transport |-> 0]

SequencerError ==
    { StarknetError(c, m) : c \in StarknetErrorCode, m \in ShortMessages }
        \cup { ReqwestError(r) : r \in 0..MaxTransport }
        \cup { InvalidStarknetErrorVariant }

\* e.into() into anyhow::Error: the wrapped value and the Rust type it had.
\* `of` is "reqwest::Error", "SequencerError", "StarknetError" or "String".
Anyhow(of, e, text) == [of |-> of, error |-> e, text |-> text]

NoCause == Anyhow("-", NoSequencerError, <<>>)

\* Error::Call(CallError::Failed(cause))
CallFailedDroppingCause(cause) == [kind |-> "CallFailed", cause |-> NoCause]

CallFailed(cause) == [kind |-> "CallFailed", cause |-> cause]

\* RpcErrorCode::<kind>.into()
RpcErrorCode(kind) == [kind |-> kind, cause |-> NoCause]

NoRpcError == [kind |-> "-", cause |-> NoCause]

\* A translation in which TransactionLimitExceeded shares the TransactionFailed arm.
FromLimitExceededAsCallData(e) ==
    IF e.tag = "ReqwestError"
    THEN CallFailed(Anyhow("reqwest::Error", e, <<>>))
    ELSE IF e.tag = "InvalidStarknetErrorVariant"
    THEN CallFailed(Anyhow("SequencerError", e, <<>>))
    ELSE IF /\ e.code \in {"OutOfRangeBlockHash", "BlockNotFound"}
            /\ contains(e.message, BlockHash)
    THEN RpcErrorCode("InvalidBlockId")
    ELSE IF e.code \in {"OutOfRangeContractAddress", "UninitializedContract"}
    THEN RpcErrorCode("ContractNotFound")
    ELSE IF e.code = "OutOfRangeTransactionHash"
    THEN RpcErrorCode("InvalidTransactionHash")
    ELSE IF e.code \in {"TransactionFailed", "TransactionLimitExceeded"}
    THEN RpcErrorCode("InvalidCallData")
    ELSE IF e.code = "TransactionLimitExceeded"
    THEN CallFailed(Anyhow("StarknetError", e, <<>>))
    ELSE IF e.code = "EntryPointNotFound"
    THEN RpcErrorCode("InvalidMessageSelector")
    ELSE IF e.code = "BlockNotFound" /\ contains(e.message, BlockNumber)
    THEN RpcErrorCode("InvalidBlockId")
    ELSE IF e.code = "InvalidContractDefinition"
    THEN RpcErrorCode("ContractError")
    ELSE IF e.code \in { "BlockNotFound", "SchemaValidationError", "MalformedRequest",
                           "UnsupportedSelectorForFee", "OutOfRangeBlockHash", "NotPermittedContract",
                           "InvalidTransactionNonce", "OutOfRangeFee", "InvalidTransactionVersion",
                           "InvalidProgram" }
    THEN CallFailed(Anyhow("StarknetError", e, <<>>))
    ELSE IF e.code = "UndeclaredClass"
    THEN RpcErrorCode("InvalidContractClassHash")
    ELSE NoRpcError

\* A translation in which UninitializedContract sits in the catch-all arm.
FromUninitializedAsGeneric(e) ==
    IF e.tag = "ReqwestError"
    THEN CallFailed(Anyhow("reqwest::Error", e, <<>>))
    ELSE IF e.tag = "InvalidStarknetErrorVariant"
    THEN CallFailed(Anyhow("SequencerError", e, <<>>))
    ELSE IF /\ e.code \in {"OutOfRangeBlockHash", "BlockNotFound"}
            /\ contains(e.message, BlockHash)
    THEN RpcErrorCode("InvalidBlockId")
    ELSE IF e.code \in {"OutOfRangeContractAddress"}
    THEN RpcErrorCode("ContractNotFound")
    ELSE IF e.code = "OutOfRangeTransactionHash"
    THEN RpcErrorCode("InvalidTransactionHash")
    ELSE IF e.code \in {"TransactionFailed"}
    THEN RpcErrorCode("InvalidCallData")
    ELSE IF e.code = "TransactionLimitExceeded"
    THEN CallFailed(Anyhow("StarknetError", e, <<>>))
    ELSE IF e.code = "EntryPointNotFound"
    THEN RpcErrorCode("InvalidMessageSelector")
    ELSE IF e.code = "BlockNotFound" /\ contains(e.message, BlockNumber)
    THEN RpcErrorCode("InvalidBlockId")
    ELSE IF e.code = "InvalidContractDefinition"
    THEN RpcErrorCode("ContractError")
    ELSE IF e.code \in { "BlockNotFound", "SchemaValidationError", "MalformedRequest",
                           "UnsupportedSelectorForFee", "OutOfRangeBlockHash", "NotPermittedContract",
                           "InvalidTransactionNonce", "OutOfRangeFee", "InvalidTransactionVersion",
                           "InvalidProgram", "UninitializedContract" }
    THEN CallFailed(Anyhow("StarknetError", e, <<>>))
    ELSE IF e.code = "UndeclaredClass"
    THEN RpcErrorCode("InvalidContractClassHash")
    ELSE NoRpcError

\* impl From<SequencerError> for jsonrpsee Error: the match, arm by arm, in
\* source order (the first arm that matches wins).  The match is exhaustive in
\* Rust; the final ELSE is the value no input reaches.
From_SequencerError_for_Error(e) ==
    IF e.tag = "ReqwestError"
    THEN CallFailed(Anyhow("reqwest::Error", e, <<>>))
    ELSE IF e.tag = "InvalidStarknetErrorVariant"
    THEN CallFailed(Anyhow("SequencerError", e, <<>>))
    ELSE IF /\ e.code \in {"OutOfRangeBlockHash", "BlockNotFound"}
            /\ contains(e.message, BlockHash)
    THEN RpcErrorCode("InvalidBlockId")
    ELSE IF e.code \in {"OutOfRangeContractAddress", "UninitializedContract"}
    THEN RpcErrorCode("ContractNotFound")
    ELSE IF e.code = "OutOfRangeTransactionHash"
    THEN RpcErrorCode("InvalidTransactionHash")
    ELSE IF e.code \in {"TransactionFailed"}
    THEN RpcErrorCode("InvalidCallData")
    ELSE IF e.code = "TransactionLimitExceeded"
    THEN CallFailed(Anyhow("StarknetError", e, <<>>))
    ELSE IF e.code = "EntryPointNotFound"
    THEN RpcErrorCode("InvalidMessageSelector")
    ELSE IF e.code = "BlockNotFound" /\ contains(e.message, BlockNumber)
    THEN RpcErrorCode("InvalidBlockId")
    ELSE IF e.code = "InvalidContractDefinition"
    THEN RpcErrorCode("ContractError")
    ELSE IF e.code \in { "BlockNotFound", "SchemaValidationError", "MalformedRequest",
                           "UnsupportedSelectorForFee", "OutOfRangeBlockHash", "NotPermittedContract",
                           "InvalidTransactionNonce", "OutOfRangeFee", "InvalidTransactionVersion",
                           "InvalidProgram" }
    THEN CallFailed(Anyhow("StarknetError", e, <<>>))
    ELSE IF e.code = "UndeclaredClass"
    THEN RpcErrorCode("InvalidContractClassHash")
    ELSE NoRpcError

----------------------------------------------------------------------------
\* Translator: the environment builds a SequencerError, From::from is applied.

InitTranslator ==
    /\ seqErr = NoSequencerError
    /\ rpcError = NoRpcError
    /\ specificCodes = {}

\* The sequencer answers with a StarknetError { code, message: "" }.
NewStarknetError(c) ==
    /\ seqErr' = StarknetError(c, <<>>)
    /\ rpcError' = NoRpcError
    /\ UNCHANGED <<specificCodes, methodVars>>

\* The message of the StarknetError not yet translated grows by one fragment.
AppendMessage(f, extendable) ==
    /\ seqErr.tag = "StarknetError"
    /\ rpcError = NoRpcError
    /\ seqErr.message \in extendable
    /\ seqErr' = [seqErr EXCEPT !.message = @ \o f]
    /\ UNCHANGED <<rpcError, specificCodes, methodVars>>

\* The transport fails.
NewReqwestError(r) ==
    /\ seqErr' = ReqwestError(r)
    /\ rpcError' = NoRpcError
    /\ UNCHANGED <<specificCodes, methodVars>>

\* The response body does not decode.
NewInvalidStarknetErrorVariant ==
    /\ seqErr' = InvalidStarknetErrorVariant
    /\ rpcError' = NoRpcError
    /\ UNCHANGED <<specificCodes, methodVars>>

\* Error::from(seqErr)
Translate ==
    /\ seqErr # NoSequencerError
    /\ rpcError = NoRpcError
    /\ rpcError' = From_SequencerError_for_Error(seqErr)
    /\ UNCHANGED <<seqErr, specificCodes, methodVars>>

\* Error::from(seqErr), with the code recorded when the outcome is not the
\* generic call failure.
TranslateRecorded ==
    /\ seqErr # NoSequencerError
    /\ rpcError = NoRpcError
    /\ rpcError' = From_SequencerError_for_Error(seqErr)
    /\ specificCodes' =
          IF seqErr.tag = "StarknetError" /\ rpcError'.kind # "CallFailed"
          THEN specificCodes \cup {seqErr.code}
          ELSE specificCodes
    /\ UNCHANGED <<seqErr, methodVars>>

----------------------------------------------------------------------------
\* rpc::v02::method::add_deploy_transaction

Felt == 0..MaxFelt

\* Option<String>
None == [some |-> FALSE, value |-> ""]
Some(s) == [some |-> TRUE, value |-> s]
Token == {None, Some("token")}

\* ContractClass as far as the method is concerned: the program text, and
\* whether its encoding is one the conversion to ContractDefinition rejects.
ContractClass == [program : {"", "cairo"}, malformed : BOOLEAN]

Calldata == UNION { [1..k -> Felt] : k \in 0..MaxCalldata }

BroadcastedDeployTransaction ==
    [version : Felt, constructor_calldata : Calldata,
     contract_address_salt : Felt, contract_class : ContractClass]

AddDeployTransactionInput ==
    [deploy_transaction : BroadcastedDeployTransaction, token : Token]

NoInput ==
    [deploy_transaction |->
        [version |-> 0, constructor_calldata |-> <<>>, contract_address_salt |-> 0,
         contract_class |-> [program |-> "", malformed |-> FALSE]],
     token |-> None]

\* AddDeployTransactionError: the declared InvalidContractClass, and Internal.
InvalidContractClass == [kind |-> "InvalidContractClass", cause |-> NoCause]
Internal(cause) == [kind |-> "Internal", cause |-> cause]
NoMethodError == [kind |-> "-", cause |-> NoCause]

\* A conversion that reports every StarknetError as InvalidContractClass.
FromAnyStarknetErrorAsInvalidClass(e) ==
    IF e.tag = "StarknetError"
    THEN InvalidContractClass
    ELSE Internal(Anyhow("SequencerError", e, <<>>))

\* A conversion that compares against the wrong code.
FromInvalidContractDefinitionAsInvalidClass(e) ==
    IF e.tag = "StarknetError" /\ e.code = "InvalidContractDefinition"
    THEN InvalidContractClass
    ELSE Internal(Anyhow("SequencerError", e, <<>>))

\* A conversion that also reports InvalidContractDefinition as InvalidContractClass.
FromBothClassCodesAsInvalidClass(e) ==
    IF e.tag = "StarknetError" /\ e.code \in {"InvalidProgram", "InvalidContractDefinition"}
    THEN InvalidContractClass
    ELSE Internal(Anyhow("SequencerError", e, <<>>))

\* impl From<SequencerError> for AddDeployTransactionError
From_SequencerError_for_AddDeployTransactionError(e) ==
    IF e.tag = "StarknetError" /\ e.code = "InvalidProgram"
    THEN InvalidContractClass
    ELSE Internal(Anyhow("SequencerError", e, <<>>))

\* impl From<anyhow::Error> for AddDeployTransactionError, generated by
\* generate_rpc_error_subset!: the `?` of the conversion goes through it.
From_anyhow_for_AddDeployTransactionError(cause) == Internal(cause)

\* ContractDefinition::try_from(ContractClass)
TryFrom_ContractClass(class) ==
    IF class.malformed
    THEN [ok |-> FALSE, definition |-> [program |-> ""],
          err |-> <<"cannot decode program: ", class.program>>]
    ELSE [ok |-> TRUE, definition |-> [program |-> class.program], err |-> <<>>]

\* anyhow::anyhow!("Failed to convert contract definition: {}", e)
ConversionDiagnostic(e) ==
    Anyhow("String", NoSequencerError, <<"Failed to convert contract definition: ">> \o e)

\* The arguments of context.sequencer.add_deploy_transaction(...)
CallArguments(tx, contract_definition, token) ==
    [version |-> tx.version,
     contract_address_salt |-> tx.contract_address_salt,
     constructor_calldata |-> tx.constructor_calldata,
     contract_definition |-> contract_definition,
     token |-> token]

\* The sequencer's reply type: { transaction_hash, address }.
Response == [transaction_hash : Felt, address : Felt]
NoResponse == [transaction_hash |-> 0, address |-> 0]

\* What the awaited call can return: Ok(response) or Err(SequencerError).
UpstreamOutcome ==
    { [state |-> "Ok", response |-> r, error |-> NoSequencerError] : r \in Response }
        \cup { [state |-> "Err", response |-> NoResponse, error |-> e] : e \in SequencerError }
NoOutcome == [state |-> "-", response |-> NoResponse, error |-> NoSequencerError]

NoOutput == [transaction_hash |-> 0, contract_address |-> 0]
Ok(value) == [state |-> "Ok", value |-> value, error |-> NoMethodError]
Err(error) == [state |-> "Err", value |-> NoOutput, error |-> error]
NoResult == [state |-> "-", value |-> NoOutput, error |-> NoMethodError]

\* An output with the two fields of the response exchanged.
OutputSwapped(response) ==
    [transaction_hash |-> response.address,
     contract_address |-> response.transaction_hash]

\* AddDeployTransactionOutput { transaction_hash, contract_address }
AddDeployTransactionOutput(response) ==
    [transaction_hash |-> response.transaction_hash,
     contract_address |-> response.address]

InitMethod ==
    /\ pc = "idle"
    /\ input = NoInput
    /\ upstreamCalls = <<>>
    /\ outcome = NoOutcome
    /\ result = NoResult

\* add_deploy_transaction(context, input) is called.
Invoke(in) ==
    /\ pc = "idle"
    /\ pc' = "start"
    /\ input' = in
    /\ UNCHANGED <<upstreamCalls, outcome, result, translatorVars>>

\* A first part that calls the sequencer whether or not the conversion succeeded.
add_deploy_transaction_callAnyway ==
    /\ pc = "start"
    /\ LET tx == input.deploy_transaction
           converted == TryFrom_ContractClass(tx.contract_class)
       IN  /\ upstreamCalls' = Append(upstreamCalls,
                 CallArguments(tx, converted.definition, input.token))
           /\ IF converted.ok
              THEN pc' = "awaiting" /\ UNCHANGED result
              ELSE /\ result' = Err(From_anyhow_for_AddDeployTransactionError(
                                        ConversionDiagnostic(converted.err)))
                   /\ pc' = "done"
    /\ UNCHANGED <<input, outcome, translatorVars>>

\* add_deploy_transaction up to its await: destructure, convert the contract
\* class (returning the error on failure), call the sequencer.
add_deploy_transaction_call ==
    /\ pc = "start"
    /\ LET tx == input.deploy_transaction
           converted == TryFrom_ContractClass(tx.contract_class)
       IN  IF converted.ok
           THEN /\ upstreamCalls' = Append(upstreamCalls,
                      CallArguments(tx, converted.definition, input.token))
                /\ pc' = "awaiting"
                /\ UNCHANGED result
           ELSE /\ result' = Err(From_anyhow_for_AddDeployTransactionError(
                                     ConversionDiagnostic(converted.err)))
                /\ pc' = "done"
                /\ UNCHANGED upstreamCalls
    /\ UNCHANGED <<input, outcome, translatorVars>>

\* A second part that calls the sequencer once more when the call failed.
add_deploy_transaction_retry(o) ==
    /\ pc = "awaiting"
    /\ outcome' = o
    /\ IF o.state = "Ok"
       THEN /\ result' = Ok(AddDeployTransactionOutput(o.response))
            /\ pc' = "done"
            /\ UNCHANGED upstreamCalls
       ELSE IF Len(upstreamCalls) < 2
       THEN /\ upstreamCalls' = Append(upstreamCalls, upstreamCalls[1])
            /\ UNCHANGED <<pc, result>>
       ELSE /\ result' = Err(From_SequencerError_for_AddDeployTransactionError(o.error))
            /\ pc' = "done"
            /\ UNCHANGED upstreamCalls
    /\ UNCHANGED <<input, translatorVars>>

\* add_deploy_transaction from its await on: the call returned o; `?` converts
\* and returns an error, otherwise the output is built from the response.
add_deploy_transaction_return(o) ==
    /\ pc = "awaiting"
    /\ outcome' = o
    /\ result' = IF o.state = "Ok"
                 THEN Ok(AddDeployTransactionOutput(o.response))
                 ELSE Err(From_SequencerError_for_AddDeployTransactionError(o.error))
    /\ pc' = "done"
    /\ UNCHANGED <<input, upstreamCalls, translatorVars>>

\* The kinds generate_rpc_error_subset! declares for AddDeployTransactionError.
DeclaredKinds == {"InvalidContractClass"}

\* The projection of a generic RPC error onto the method's subset: a declared
\* kind is kept, anything else becomes Internal wrapping it.
ProjectOntoSubset(err) ==
    IF err.kind \in DeclaredKinds
    THEN [kind |-> err.kind, cause |-> NoCause]
    ELSE Internal(Anyhow("jsonrpsee::Error", NoSequencerError, <<err.kind>>))

----------------------------------------------------------------------------
\* Specifications.

Init == InitTranslator /\ InitMethod

\* The method: one invocation, from the call to its result.
Next ==
    \/ \E in \in AddDeployTransactionInput : Invoke(in)
    \/ add_deploy_transaction_call
    \/ \E o \in UpstreamOutcome : add_deploy_transaction_return(o)

Spec == Init /\ [][Next]_vars

\* The translator applied to every SequencerError.
NextTranslate ==
    \/ \E c \in StarknetErrorCode : NewStarknetError(c)
    \/ \E f \in Fragments : AppendMessage(f, ExtendableMessages)
    \/ \E r \in 0..MaxTransport : NewReqwestError(r)
    \/ NewInvalidStarknetErrorVariant
    \/ Translate

SpecTranslate == Init /\ [][NextTranslate]_vars

\* The translator with the codes it did not report as the generic failure recorded.
NextCensus ==
    \/ \E c \in StarknetErrorCode : NewStarknetError(c)
    \/ \E f \in Fragments : AppendMessage(f, ExtendableShortMessages)
    \/ TranslateRecorded

SpecCensus == Init /\ [][NextCensus]_vars

----------------------------------------------------------------------------
\* Properties of the translation.

\* The translator has returned.
Translated == rpcError # NoRpcError

\* needle occurs in text (by scanning the text from its head).
RECURSIVE Occurs(_, _)
Occurs(needle, text) ==
    IF Len(text) < Len(needle)
    THEN FALSE
    ELSE SubSeq(text, 1, Len(needle)) = needle \/ Occurs(needle, Tail(text))

BlockCodes == {"OutOfRangeBlockHash", "BlockNotFound"}

CodeOnlyCodes ==
    { "OutOfRangeContractAddress", "UninitializedContract", "OutOfRangeTransactionHash",
      "TransactionFailed", "EntryPointNotFound", "InvalidContractDefinition",
      "UndeclaredClass" }

CodeOnlyKind(code) ==
    CASE code \in {"OutOfRangeContractAddress", "UninitializedContract"} -> "ContractNotFound"
      [] code = "OutOfRangeTransactionHash" -> "InvalidTransactionHash"
      [] code = "TransactionFailed" -> "InvalidCallData"
      [] code = "EntryPointNotFound" -> "InvalidMessageSelector"
      [] code = "InvalidContractDefinition" -> "ContractError"
      [] code = "UndeclaredClass" -> "InvalidContractClassHash"

\* C1 as stated: at most eight upstream codes are ever translated to a kind
\* other than the generic call failure.
C1_EightSpecificCodes == Cardinality(specificCodes) <= 8

\* C1, amended: the codes that are ever translated to a kind other than the
\* generic call failure are among nine (the two block codes and the seven
\* code-only codes); every translation of any of the other nine codes, whatever
\* the message, is the generic call failure carrying the StarknetError.
C1_NineSpecificCodes ==
    /\ specificCodes \subseteq (BlockCodes \cup CodeOnlyCodes)
    /\ Cardinality(BlockCodes \cup CodeOnlyCodes) = 9
    /\ Cardinality(StarknetErrorCode) = 18
    /\ (Translated /\ seqErr.code \notin (BlockCodes \cup CodeOnlyCodes))
          => rpcError = [kind |-> "CallFailed",
                         cause |-> [of |-> "StarknetError", error |-> seqErr, text |-> <<>>]]

\* All nine codes have been seen to give a specific kind, and a tenth code with
\* a message holding "Block hash" has just been translated to the generic kind.
C1_Witness ==
    /\ specificCodes = BlockCodes \cup CodeOnlyCodes
    /\ seqErr.code = "InvalidProgram"
    /\ seqErr.message = BlockHash
    /\ rpcError.kind = "CallFailed"

\* C2: the translation is InvalidBlockId exactly when the code is
\* OutOfRangeBlockHash or BlockNotFound and the message holds "Block hash", or
\* the code is BlockNotFound and the message holds "Block number"; the two block
\* codes are otherwise translated to the generic call failure.
C2_InvalidBlockIdExactly ==
    Translated =>
        LET byHash == seqErr.code \in BlockCodes /\ Occurs(BlockHash, seqErr.message)
            byNumber == seqErr.code = "BlockNotFound" /\ Occurs(BlockNumber, seqErr.message)
        IN  /\ (rpcError.kind = "InvalidBlockId") <=> (byHash \/ byNumber)
            /\ (seqErr.code \in BlockCodes /\ ~(byHash \/ byNumber))
                  => rpcError.kind = "CallFailed"

\* BlockNotFound whose message holds "Block number" after other text, and no
\* "Block hash", has been translated to InvalidBlockId.
C2_Witness ==
    /\ seqErr.code = "BlockNotFound"
    /\ seqErr.message = <<"h","a","s","h">> \o BlockNumber
    /\ rpcError.kind = "InvalidBlockId"

\* C3: for the seven code-only codes the translation is the kind of the code,
\* carrying nothing, whatever the message.
C3_CodeOnly ==
    (Translated /\ seqErr.code \in CodeOnlyCodes)
        => rpcError = [kind |-> CodeOnlyKind(seqErr.code), cause |-> NoCause]

\* UninitializedContract with a message holding "Block hash" has been
\* translated to ContractNotFound.
C3_Witness ==
    /\ seqErr.code = "UninitializedContract"
    /\ Occurs(BlockHash, seqErr.message)
    /\ rpcError.kind = "ContractNotFound"

\* C8: a ReqwestError or an InvalidStarknetErrorVariant is translated to the
\* generic call failure, whose cause is that error (the reqwest error itself,
\* the SequencerError for the decode failure).
C8_NonUpstreamIsCallFailed ==
    (Translated /\ seqErr.tag \in {"ReqwestError", "InvalidStarknetErrorVariant"})
        => /\ rpcError.kind = "CallFailed"
           /\ rpcError.cause.error = seqErr
           /\ rpcError.cause.of = IF seqErr.tag = "ReqwestError"
                                  THEN "reqwest::Error" ELSE "SequencerError"

\* A transport failure has been translated.
C8_Witness == Translated /\ seqErr.tag = "ReqwestError"

----------------------------------------------------------------------------
\* Properties of add_deploy_transaction.

Converted == TryFrom_ContractClass(input.deploy_transaction.contract_class)

UpstreamFailedWith(code) ==
    /\ outcome.state = "Err"
    /\ outcome.error.tag = "StarknetError"
    /\ outcome.error.code = code

\* C4: when the upstream call returned a StarknetError with code InvalidProgram
\* the method returned Err(InvalidContractClass), whatever the message.
C4_InvalidProgramIsInvalidContractClass ==
    (pc = "done" /\ UpstreamFailedWith("InvalidProgram"))
        => result = [state |-> "Err", value |-> NoOutput,
                     error |-> [kind |-> "InvalidContractClass", cause |-> NoCause]]

\* The method has returned after an upstream InvalidProgram whose message holds
\* "Block hash".
C4_Witness ==
    /\ pc = "done"
    /\ UpstreamFailedWith("InvalidProgram")
    /\ outcome.error.message = BlockHash

\* C5: when the conversion of the contract class fails, no upstream call is
\* made at any point of the invocation, and the method returns Err(Internal)
\* whose cause holds the conversion's diagnostic.
C5_ConversionFailureIsInternalWithoutCall ==
    (pc # "idle" /\ ~Converted.ok)
        => /\ upstreamCalls = <<>>
           /\ outcome = NoOutcome
           /\ pc \in {"start", "done"}
           /\ pc = "done" =>
                /\ result.state = "Err"
                /\ result.error.kind = "Internal"
                /\ result.error.cause.text =
                      <<"Failed to convert contract definition: ">> \o Converted.err

\* The method has returned for a request whose contract class does not convert.
C5_Witness == pc = "done" /\ ~Converted.ok

\* C6: there is never more than one upstream call; once the conversion has
\* succeeded there is exactly one, whatever it returns; and as soon as the call
\* has returned the method has returned its result, a failure being reported
\* without another call.
C6_OneUpstreamCall ==
    /\ Len(upstreamCalls) <= 1
    /\ pc \in {"awaiting", "done"} => Len(upstreamCalls) = IF Converted.ok THEN 1 ELSE 0
    /\ outcome # NoOutcome =>
          /\ pc = "done"
          /\ Len(upstreamCalls) = 1
          /\ result.state = outcome.state
    /\ pc = "done" => result # NoResult

\* The upstream call failed and the method has returned, having called once.
C6_Witness == pc = "done" /\ outcome.state = "Err" /\ Len(upstreamCalls) = 1

\* C7: when the upstream call succeeded the method returned Ok with the
\* response's transaction hash and address, and the call was made with the
\* request's version, salt, calldata and token and the converted definition.
C7_SuccessEchoesResponse ==
    (pc = "done" /\ outcome.state = "Ok")
        => /\ result.state = "Ok"
           /\ result.value.transaction_hash = outcome.response.transaction_hash
           /\ result.value.contract_address = outcome.response.address
           /\ upstreamCalls =
                 << [version |-> input.deploy_transaction.version,
                     contract_address_salt |-> input.deploy_transaction.contract_address_salt,
                     constructor_calldata |-> input.deploy_transaction.constructor_calldata,
                     contract_definition |-> Converted.definition,
                     token |-> input.token] >>

\* A success whose hash and address differ, for a request with calldata and a token.
C7_Witness ==
    /\ pc = "done"
    /\ outcome.state = "Ok"
    /\ outcome.response.transaction_hash # outcome.response.address
    /\ input.deploy_transaction.constructor_calldata # <<>>
    /\ input.token.some

\* C9: a failure of the method is InvalidContractClass or Internal; it is
\* InvalidContractClass exactly when the upstream call was made and returned a
\* StarknetError with code InvalidProgram; otherwise it is Internal, whose cause
\* is the SequencerError the call returned or, when the conversion failed, the
\* conversion's diagnostic.
C9_FailureKinds ==
    (pc = "done" /\ result.state = "Err")
        => /\ result.error.kind \in {"InvalidContractClass", "Internal"}
           /\ (result.error.kind = "InvalidContractClass")
                 <=> (Len(upstreamCalls) = 1 /\ UpstreamFailedWith("InvalidProgram"))
           /\ result.error.kind = "Internal" =>
                 IF outcome.state = "Err"
                 THEN result.error.cause =
                         [of |-> "SequencerError", error |-> outcome.error, text |-> <<>>]
                 ELSE /\ ~Converted.ok
                      /\ result.error.cause.text =
                            <<"Failed to convert contract definition: ">> \o Converted.err

\* An upstream code other than InvalidProgram has surfaced as Internal.
C9_Witness ==
    /\ pc = "done"
    /\ UpstreamFailedWith("InvalidContractDefinition")
    /\ result.error.kind = "Internal"

\* C10 as stated: on upstream failure the kind of the method's error is the kind
\* of the translated error projected onto the method's subset.
C10_ViaTranslator ==
    (pc = "done" /\ outcome.state = "Err")
        => result.error.kind =
              ProjectOntoSubset(From_SequencerError_for_Error(outcome.error)).kind

\* C10, amended: on upstream failure the kind of the method's error is the kind
\* of the translated error projected onto the method's subset, except for a
\* StarknetError with code InvalidProgram, where the method returns
\* InvalidContractClass and the translated error projects to Internal.
C10_ViaTranslatorExceptInvalidProgram ==
    (pc = "done" /\ outcome.state = "Err")
        => LET projected == ProjectOntoSubset(From_SequencerError_for_Error(outcome.error))
           IN  IF UpstreamFailedWith("InvalidProgram")
               THEN result.error.kind = "InvalidContractClass" /\ projected.kind = "Internal"
               ELSE result.error.kind = projected.kind

\* The method has returned InvalidContractClass for an upstream InvalidProgram.
C10_Witness ==
    /\ pc = "done"
    /\ UpstreamFailedWith("InvalidProgram")
    /\ result.error.kind = "InvalidContractClass"

====
